---- MODULE Spec2Model ----
\* Model of the component-installer script (add-ui-component), the Node.js
\* program at src/unnamed/part_001 lines 229-274, together with the delegated
\* child process it spawns through a shell.
EXTENDS Integers, Sequences, FiniteSets, TLC

\* ------------------------------------------------------------------ bounds
MaxLen == 2      \* longest component identifier, in characters
MaxArgs == 2     \* most positional arguments on the command line
MaxCode == 2     \* largest ordinary exit code the child reports

\* ---------------------------------------------------------------- alphabet
\* A string is a sequence of chunks; a chunk is one character of an
\* identifier or one literal piece of text that contains no whitespace
\* boundary of interest.  " " is the shell's word separator.
Chars == {"a", "b", " "}

Identifiers == UNION {[1..n -> Chars] : n \in 0..MaxLen}

\* Values of the positional arguments after the first, which the script never
\* reads: an empty one, a plain word and one with a space.
ExtraArgs == { <<>>, <<"b">>, <<"a", " ">> }

ExtraLists == UNION {[1..n -> ExtraArgs] : n \in 0..(MaxArgs - 1)}

\* The command lines: no argument, or an identifier followed by extras.
ArgLists == {<<>>} \cup {<<x>> \o e : x \in Identifiers, e \in ExtraLists}

\* Locations of the script file, as path segments below the filesystem root.
ScriptPaths == { <<"add-ui-component.mjs">>,
                 <<"scripts", "add-ui-component.mjs">>,
                 <<"proj", "scripts", "add-ui-component.mjs">> }

\* Exit code a POSIX shell reports when the command word is not found.
ShellNotFound == 127

ExitCodes == (0..MaxCode) \cup {ShellNotFound}

\* Failures of spawn() that Node reports through the child's 'error' event.
SpawnErrors == {"ENOENT", "EACCES", "EAGAIN"}

\* Failures of spawn() that Node throws synchronously from the call.
ThrownErrors == {"E2BIG", "ENOMEM"}

\* A nullable value: <<>> is null/undefined, <<v>> is the value v.
Null == <<>>
Some(v) == <<v>>

VARIABLES
  argv,         \* positional arguments: process.argv from index 2 on
  scriptPath,   \* location of the script file (import.meta.url)
  toolInstalled,\* whether the shell can find the pnpm binary
  pc,           \* "AwaitingArgument" | "Delegating" | "Terminal"
  exitStatus,   \* nullable: the installer's process exit status
  stdout,       \* lines the installer wrote to standard output
  stderr,       \* lines the installer wrote to standard error
  spawnCalls,   \* number of calls of spawn()
  launched,     \* the child processes started: argv, cwd, stdio
  child,        \* "none" | "threw" | "failed" | "running" | "exited"
  launchReason, \* nullable: why spawn() failed
  childCode,    \* nullable: the exit code the child reported (null: signal)
  events,       \* child events emitted and not yet dispatched
  exitHandled   \* the 'exit' callback returned without ending the process

vars == <<argv, scriptPath, toolInstalled, pc, exitStatus, stdout, stderr,
          spawnCalls, launched, child, launchReason, childCode, events,
          exitHandled>>

\* ------------------------------------------------------- pure functions
\* dirname(fileURLToPath(import.meta.url)): the path without its last segment.
Dirname(p) == IF Len(p) = 0 THEN p ELSE SubSeq(p, 1, Len(p) - 1)

\* path.join(dir, ".."): one level up, the root being its own parent.
JoinParent(d) == IF Len(d) = 0 THEN d ELSE SubSeq(d, 1, Len(d) - 1)

projectRoot == JoinParent(Dirname(scriptPath))

\* process.argv[2]: undefined when there is no positional argument.
componentName == IF Len(argv) >= 1 THEN Some(argv[1]) ELSE Null

\* JavaScript truthiness of a string-or-undefined: undefined and "" are falsy.
Truthy(v) == v # Null /\ v[1] # <<>>

\* Variant of SpawnArgs that forwards every positional argument
\* (process.argv.slice(2)) instead of the component name alone.
SpawnArgsForwardAll(name) == << <<"dlx">>, <<"shadcn@canary">>, <<"add">> >> \o argv

\* The argument vector handed to spawn().
SpawnArgs(name) == << <<"dlx">>, <<"shadcn@canary">>, <<"add">>, name >>

RECURSIVE JoinWords(_)
\* Array.prototype.join(" ") over the command and its arguments.
JoinWords(ws) ==
  IF Len(ws) = 0 THEN <<>>
  ELSE IF Len(ws) = 1 THEN ws[1]
  ELSE ws[1] \o <<" ">> \o JoinWords(Tail(ws))

\* With shell: true Node runs  sh -c "<file> <args joined by spaces>".
CommandLine(name) == JoinWords(<< <<"pnpm">> >> \o SpawnArgs(name))

RECURSIVE ShellSplit(_, _)
\* The shell's word splitting of the command line: cur is the word being read.
ShellSplit(line, cur) ==
  IF Len(line) = 0
    THEN (IF cur = <<>> THEN <<>> ELSE <<cur>>)
  ELSE IF Head(line) = " "
    THEN (IF cur = <<>> THEN <<>> ELSE <<cur>>) \o ShellSplit(Tail(line), <<>>)
  ELSE ShellSplit(Tail(line), Append(cur, Head(line)))

\* The argument vector the delegated command actually receives.
ChildArgv(name) == ShellSplit(CommandLine(name), <<>>)

\* String(code) inside a template literal.
CodeText(code) == IF code = Null THEN "null" ELSE ToString(code[1])

\* process.exit(code) ends the process with  code || 0.
ProcessExit(code) == IF code = Null THEN Some(0) ELSE code

\* ------------------------------------------------------------- messages
UsageErrorMsg == <<"Error: Please specify a component name">>
UsageHintMsg == <<"Usage: npm run ui:add <component-name>">>
UsageExampleMsg == <<"Example: npm run ui:add button">>
AddingMsg(name) == <<"Adding shadcn component: ">> \o name
WorkingDirMsg(dir) == <<"Working directory: ">> \o dir
RunErrorMsg(reason) == <<"Error running command:", " ", reason>>
SuccessMsg(name) == <<"Successfully added ">> \o name \o <<" component!">>
FailedMsg(code) == <<"Command failed with exit code ", CodeText(code)>>
UncaughtMsg(reason) == <<"Uncaught Error: spawn ", reason>>

Contains(msg, sub) ==
  \E i \in 0..(Len(msg) - Len(sub)) : SubSeq(msg, i + 1, i + Len(sub)) = sub

Printed(stream, msg) == \E i \in 1..Len(stream) : stream[i] = msg

\* ------------------------------------------------------------------ Init
Init ==
  /\ argv \in ArgLists
  /\ scriptPath \in ScriptPaths
  /\ toolInstalled \in BOOLEAN
  /\ pc = "AwaitingArgument"
  /\ exitStatus = Null
  /\ stdout = <<>>
  /\ stderr = <<>>
  /\ spawnCalls = 0
  /\ launched = <<>>
  /\ child = "none"
  /\ launchReason = Null
  /\ childCode = Null
  /\ events = <<>>
  /\ exitHandled = FALSE

\* --------------------------------------------------- the script's main run
\* Variant of MissingArgument that calls process.exit() without a status.
MissingArgumentExitsZero ==
  /\ pc = "AwaitingArgument"
  /\ ~Truthy(componentName)
  /\ stderr' = Append(stderr, UsageErrorMsg)
  /\ stdout' = stdout \o <<UsageHintMsg, UsageExampleMsg>>
  /\ exitStatus' = ProcessExit(Null)
  /\ pc' = "Terminal"
  /\ UNCHANGED <<argv, scriptPath, toolInstalled, spawnCalls, launched, child,
                 launchReason, childCode, events, exitHandled>>

\* Lines 240-247: no (truthy) component name.
MissingArgument ==
  /\ pc = "AwaitingArgument"
  /\ ~Truthy(componentName)
  /\ stderr' = Append(stderr, UsageErrorMsg)
  /\ stdout' = stdout \o <<UsageHintMsg, UsageExampleMsg>>
  /\ exitStatus' = ProcessExit(Some(1))
  /\ pc' = "Terminal"
  /\ UNCHANGED <<argv, scriptPath, toolInstalled, spawnCalls, launched, child,
                 launchReason, childCode, events, exitHandled>>

\* The two progress lines of lines 252-253.
Progress == stdout \o <<AddingMsg(componentName[1]), WorkingDirMsg(projectRoot)>>

\* Lines 249-260, spawn() throws: the exception is uncaught, Node reports it
\* on standard error and ends the process with status 1.
SpawnThrows(reason) ==
  /\ pc = "AwaitingArgument"
  /\ Truthy(componentName)
  /\ stdout' = Progress
  /\ spawnCalls' = spawnCalls + 1
  /\ child' = "threw"
  /\ launchReason' = Some(reason)
  /\ stderr' = Append(stderr, UncaughtMsg(reason))
  /\ exitStatus' = Some(1)
  /\ pc' = "Terminal"
  /\ UNCHANGED <<argv, scriptPath, toolInstalled, launched, childCode, events,
                 exitHandled>>

\* Lines 249-274, the shell cannot be started: spawn() returns, the handlers
\* are registered and Node emits 'error' on the next tick.
SpawnFails(reason) ==
  /\ pc = "AwaitingArgument"
  /\ Truthy(componentName)
  /\ stdout' = Progress
  /\ spawnCalls' = spawnCalls + 1
  /\ child' = "failed"
  /\ launchReason' = Some(reason)
  /\ events' = Append(events, [type |-> "error", reason |-> reason, code |-> Null])
  /\ pc' = "Delegating"
  /\ UNCHANGED <<argv, scriptPath, toolInstalled, exitStatus, stderr, launched,
                 childCode, exitHandled>>

\* Lines 249-274, the shell starts and runs the command line.
SpawnStarts ==
  /\ pc = "AwaitingArgument"
  /\ Truthy(componentName)
  /\ stdout' = Progress
  /\ spawnCalls' = spawnCalls + 1
  /\ launched' = Append(launched, [argv  |-> ChildArgv(componentName[1]),
                                   cwd   |-> projectRoot,
                                   stdio |-> "inherit"])
  /\ child' = "running"
  /\ pc' = "Delegating"
  /\ UNCHANGED <<argv, scriptPath, toolInstalled, exitStatus, stderr,
                 launchReason, childCode, events, exitHandled>>

\* ------------------------------------------------------------- the child
\* The child ends with an exit code.  A shell that cannot find the tool
\* reports ShellNotFound.
ChildExits(code) ==
  /\ child = "running"
  /\ pc = "Delegating"
  /\ toolInstalled \/ code = ShellNotFound
  /\ child' = "exited"
  /\ childCode' = Some(code)
  /\ events' = Append(events, [type |-> "exit", reason |-> "", code |-> Some(code)])
  /\ UNCHANGED <<argv, scriptPath, toolInstalled, pc, exitStatus, stdout, stderr,
                 spawnCalls, launched, launchReason, exitHandled>>

\* The child is ended by a signal: 'exit' carries code null.
ChildKilled ==
  /\ child = "running"
  /\ pc = "Delegating"
  /\ child' = "exited"
  /\ childCode' = Null
  /\ events' = Append(events, [type |-> "exit", reason |-> "", code |-> Null])
  /\ UNCHANGED <<argv, scriptPath, toolInstalled, pc, exitStatus, stdout, stderr,
                 spawnCalls, launched, launchReason, exitHandled>>

\* ---------------------------------------------------------- the callbacks
\* Variant of OnError that reports the error and forgets process.exit(1).
OnErrorNoExit ==
  /\ pc = "Delegating"
  /\ events # <<>>
  /\ Head(events).type = "error"
  /\ stderr' = Append(stderr, RunErrorMsg(Head(events).reason))
  /\ events' = Tail(events)
  /\ UNCHANGED <<argv, scriptPath, toolInstalled, pc, exitStatus, stdout,
                 spawnCalls, launched, child, launchReason, childCode,
                 exitHandled>>

\* Variant of OnError that retries the launch instead of ending the run.
OnErrorRetry ==
  /\ pc = "Delegating"
  /\ events # <<>>
  /\ Head(events).type = "error"
  /\ stderr' = Append(stderr, RunErrorMsg(Head(events).reason))
  /\ events' = Tail(events)
  /\ spawnCalls' = spawnCalls + 1
  /\ launched' = Append(launched, [argv  |-> ChildArgv(componentName[1]),
                                   cwd   |-> projectRoot,
                                   stdio |-> "inherit"])
  /\ child' = "running"
  /\ UNCHANGED <<argv, scriptPath, toolInstalled, pc, exitStatus, stdout,
                 launchReason, childCode, exitHandled>>

\* Lines 262-265.
OnError ==
  /\ pc = "Delegating"
  /\ events # <<>>
  /\ Head(events).type = "error"
  /\ stderr' = Append(stderr, RunErrorMsg(Head(events).reason))
  /\ exitStatus' = ProcessExit(Some(1))
  /\ pc' = "Terminal"
  /\ events' = Tail(events)
  /\ UNCHANGED <<argv, scriptPath, toolInstalled, stdout, spawnCalls, launched,
                 child, launchReason, childCode, exitHandled>>

\* Variant of OnExit that ends with status 1 whatever the child's code was.
OnExitStatusOne ==
  /\ pc = "Delegating"
  /\ events # <<>>
  /\ Head(events).type = "exit"
  /\ events' = Tail(events)
  /\ IF Head(events).code = Some(0)
       THEN /\ stdout' = Append(stdout, SuccessMsg(componentName[1]))
            /\ exitHandled' = TRUE
            /\ UNCHANGED <<stderr, exitStatus, pc>>
       ELSE /\ stderr' = Append(stderr, FailedMsg(Head(events).code))
            /\ exitStatus' = ProcessExit(Some(1))
            /\ pc' = "Terminal"
            /\ UNCHANGED <<stdout, exitHandled>>
  /\ UNCHANGED <<argv, scriptPath, toolInstalled, spawnCalls, launched, child,
                 launchReason, childCode>>

\* Variant of OnExit whose success line leaves the component name out.
OnExitUnnamedSuccess ==
  /\ pc = "Delegating"
  /\ events # <<>>
  /\ Head(events).type = "exit"
  /\ events' = Tail(events)
  /\ IF Head(events).code = Some(0)
       THEN /\ stdout' = Append(stdout, SuccessMsg(<<>>))
            /\ exitHandled' = TRUE
            /\ UNCHANGED <<stderr, exitStatus, pc>>
       ELSE /\ stderr' = Append(stderr, FailedMsg(Head(events).code))
            /\ exitStatus' = ProcessExit(Head(events).code)
            /\ pc' = "Terminal"
            /\ UNCHANGED <<stdout, exitHandled>>
  /\ UNCHANGED <<argv, scriptPath, toolInstalled, spawnCalls, launched, child,
                 launchReason, childCode>>

\* Variant of OnExit that prints the success line before testing the code.
OnExitSuccessFirst ==
  /\ pc = "Delegating"
  /\ events # <<>>
  /\ Head(events).type = "exit"
  /\ events' = Tail(events)
  /\ stdout' = Append(stdout, SuccessMsg(componentName[1]))
  /\ IF Head(events).code = Some(0)
       THEN /\ exitHandled' = TRUE
            /\ UNCHANGED <<stderr, exitStatus, pc>>
       ELSE /\ stderr' = Append(stderr, FailedMsg(Head(events).code))
            /\ exitStatus' = ProcessExit(Head(events).code)
            /\ pc' = "Terminal"
            /\ UNCHANGED exitHandled
  /\ UNCHANGED <<argv, scriptPath, toolInstalled, spawnCalls, launched, child,
                 launchReason, childCode>>

\* Lines 267-274.
OnExit ==
  /\ pc = "Delegating"
  /\ events # <<>>
  /\ Head(events).type = "exit"
  /\ events' = Tail(events)
  /\ IF Head(events).code = Some(0)
       THEN /\ stdout' = Append(stdout, SuccessMsg(componentName[1]))
            /\ exitHandled' = TRUE
            /\ UNCHANGED <<stderr, exitStatus, pc>>
       ELSE /\ stderr' = Append(stderr, FailedMsg(Head(events).code))
            /\ exitStatus' = ProcessExit(Head(events).code)
            /\ pc' = "Terminal"
            /\ UNCHANGED <<stdout, exitHandled>>
  /\ UNCHANGED <<argv, scriptPath, toolInstalled, spawnCalls, launched, child,
                 launchReason, childCode>>

\* Variant of EventLoopEmpty for a child detached with unref(): the process
\* ends as soon as no event is pending, whether or not the child has ended.
EventLoopEmptyUnref ==
  /\ pc = "Delegating"
  /\ events = <<>>
  /\ exitStatus' = Some(0)
  /\ pc' = "Terminal"
  /\ UNCHANGED <<argv, scriptPath, toolInstalled, stdout, stderr, spawnCalls,
                 launched, child, launchReason, childCode, events, exitHandled>>

\* Variant of EventLoopEmpty in which an open handle keeps the loop alive
\* until another event arrives.
EventLoopEmptyHeld ==
  /\ pc = "Delegating"
  /\ exitHandled
  /\ events # <<>>
  /\ exitStatus' = Some(0)
  /\ pc' = "Terminal"
  /\ UNCHANGED <<argv, scriptPath, toolInstalled, stdout, stderr, spawnCalls,
                 launched, child, launchReason, childCode, events, exitHandled>>

\* After the 'exit' callback returned nothing keeps the event loop alive (the
\* child's streams are inherited, line 258): the process ends with status 0.
EventLoopEmpty ==
  /\ pc = "Delegating"
  /\ exitHandled
  /\ events = <<>>
  /\ exitStatus' = Some(0)
  /\ pc' = "Terminal"
  /\ UNCHANGED <<argv, scriptPath, toolInstalled, stdout, stderr, spawnCalls,
                 launched, child, launchReason, childCode, events, exitHandled>>

\* The synchronous run of the script body, lines 240-274.
Main ==
  \/ MissingArgument
  \/ \E r \in ThrownErrors : SpawnThrows(r)
  \/ \E r \in SpawnErrors : SpawnFails(r)
  \/ SpawnStarts

\* The delegated subprocess ends, one way or the other.
ChildEnds ==
  \/ \E c \in ExitCodes : ChildExits(c)
  \/ ChildKilled

Next ==
  \/ Main
  \/ ChildEnds
  \/ OnError
  \/ OnExit
  \/ EventLoopEmpty

Spec == Init /\ [][Next]_vars

\* The script body and the callbacks run whenever they can; the subprocess is
\* assumed to end eventually.
FairSpec ==
  /\ Spec
  /\ WF_vars(Main)
  /\ WF_vars(ChildEnds)
  /\ WF_vars(OnError)
  /\ WF_vars(OnExit)
  /\ WF_vars(EventLoopEmpty)

\* ------------------------------------------------------------ properties

\* C1: a run without a component identifier never calls spawn, and ends with
\* status 1 after exactly the usage error on standard error and the usage
\* hint and the example on standard output.
UsageErrorExit ==
  ~Truthy(componentName) =>
    /\ spawnCalls = 0
    /\ launched = <<>>
    /\ child = "none"
    /\ pc = "Terminal" =>
         /\ exitStatus = Some(1)
         /\ stderr = <<UsageErrorMsg>>
         /\ stdout = <<UsageHintMsg, UsageExampleMsg>>

UsageErrorExitWitness ==
  /\ pc = "Terminal"
  /\ Len(argv) = 0
  /\ stderr = <<UsageErrorMsg>>

\* C2: when the child exits with a code N other than 0, the run ends with
\* status N and has printed a failure line that contains N.
NonZeroExitPropagated ==
  (pc = "Terminal" /\ child = "exited" /\ childCode # Null /\ childCode # Some(0)) =>
    /\ exitStatus = childCode
    /\ \E i \in 1..Len(stderr) :
         /\ stderr[i][1] = "Command failed with exit code "
         /\ Contains(stderr[i], <<ToString(childCode[1])>>)

NonZeroExitPropagatedWitness ==
  /\ pc = "Terminal"
  /\ child = "exited"
  /\ childCode = Some(2)
  /\ exitStatus = Some(2)

\* C3: when the child exits with code 0, the run ends with status 0 and has
\* printed a success line that contains the identifier; a success line is on
\* standard output only after the child has exited.
SuccessConfirmed ==
  /\ (pc = "Terminal" /\ child = "exited" /\ childCode = Some(0)) =>
       /\ exitStatus = Some(0)
       /\ \E i \in 1..Len(stdout) :
            /\ stdout[i][1] = "Successfully added "
            /\ Contains(stdout[i], argv[1])
            /\ Len(stdout[i]) = Len(argv[1]) + 2
  /\ (\E i \in 1..Len(stdout) : stdout[i][1] = "Successfully added ") =>
       child = "exited"

SuccessConfirmedWitness ==
  /\ pc = "Terminal"
  /\ childCode = Some(0)
  /\ exitStatus = Some(0)
  /\ Printed(stdout, SuccessMsg(argv[1]))

\* C4 as stated: whenever the delegated command could not be launched, a
\* missing tool binary included, the run ends with status 1.
LaunchFailureExitsOne ==
  (/\ pc = "Terminal"
   /\ \/ child \in {"failed", "threw"}
      \/ (~toolInstalled /\ child = "exited" /\ childCode # Null)) =>
    exitStatus = Some(1)

\* C4 amended: when spawn itself fails the run ends with status 1 after an
\* error line that contains the reason; when the shell starts and cannot find
\* the tool, the shell's exit code is reported and becomes the status; in
\* either case the run does not stay in Delegating.
LaunchFailureReported ==
  /\ [](LET spawnFailed == child \in {"failed", "threw"}
            toolMissing == ~toolInstalled /\ child = "exited" /\ childCode # Null
        IN  /\ (pc = "Terminal" /\ spawnFailed) =>
                 /\ exitStatus = Some(1)
                 /\ Len(stderr) = 1
                 /\ Contains(stderr[1], launchReason)
            /\ (pc = "Terminal" /\ toolMissing) =>
                 /\ exitStatus = Some(ShellNotFound)
                 /\ stderr = <<FailedMsg(Some(ShellNotFound))>>)
  /\ (child = "failed") ~> (pc = "Terminal")
  /\ (~toolInstalled /\ child = "running") ~> (pc = "Terminal")

LaunchFailureReportedWitness ==
  /\ pc = "Terminal"
  /\ child = "failed"
  /\ launchReason = Some("ENOENT")
  /\ stderr = <<RunErrorMsg("ENOENT")>>

\* C5: when the child is ended by a signal and reports no exit code, the run
\* ends with status 1.
KilledChildExitsOne ==
  (pc = "Terminal" /\ child = "exited" /\ childCode = Null) =>
    exitStatus = Some(1)

\* C6: the launched command has the identifier as its final argument, the
\* project root as its working directory and inherited standard streams.
DelegatedCommandShape ==
  \A i \in 1..Len(launched) :
    /\ launched[i].argv[Len(launched[i].argv)] = argv[1]
    /\ launched[i].cwd = projectRoot
    /\ launched[i].stdio = "inherit"

\* C7: the only transitions are AwaitingArgument -> Delegating (with an
\* identifier), AwaitingArgument -> Terminal(1) and Delegating ->
\* Terminal(code); spawn is called at most once; nothing changes once
\* Terminal is reached.
LifecycleTransitions ==
  [][/\ pc' # pc =>
          \/ pc = "AwaitingArgument" /\ pc' = "Delegating" /\ Truthy(componentName)
          \/ pc = "AwaitingArgument" /\ pc' = "Terminal" /\ exitStatus' = Some(1)
          \/ pc = "Delegating" /\ pc' = "Terminal" /\ exitStatus' # Null
     /\ spawnCalls' <= 1
     /\ Len(launched') <= 1
     /\ spawnCalls' # spawnCalls => pc = "AwaitingArgument"
     /\ pc = "Terminal" => UNCHANGED vars]_vars

LifecycleTransitionsWitness ==
  /\ pc = "Terminal"
  /\ spawnCalls = 1
  /\ child = "failed"

\* C8: a failing run has exactly one failure report when it ends, no run has
\* more than one, and no run has both a failure report and a success line.
OneFailureReport ==
  LET failing == \/ ~Truthy(componentName)
                 \/ child \in {"failed", "threw"}
                 \/ (child = "exited" /\ childCode # Some(0))
      success == \E i \in 1..Len(stdout) : stdout[i][1] = "Successfully added "
  IN  /\ Len(stderr) <= 1
      /\ ~(success /\ stderr # <<>>)
      /\ (pc = "Terminal" /\ failing) => (Len(stderr) = 1 /\ ~success)
      /\ (pc = "Terminal" /\ ~failing) => (stderr = <<>> /\ success)

OneFailureReportWitness ==
  /\ pc = "Terminal"
  /\ child = "exited"
  /\ childCode = Some(1)
  /\ Len(stderr) = 1

\* C9: the run never ends while a launched child is still running: at the
\* end either no child was started or the child has exited, and the step
\* into Terminal out of Delegating is always the answer to a child event.
NoExitWhileChildRuns ==
  [][(pc' = "Terminal") =>
       /\ child' # "running"
       /\ (launched' # <<>>) => (child' = "exited")
       /\ (pc = "Delegating") => (events # <<>> \/ exitHandled)]_vars

NoExitWhileChildRunsWitness ==
  /\ pc = "Terminal"
  /\ launched # <<>>
  /\ child = "exited"

\* C10: every run reaches Terminal, given that the subprocess ends; the run
\* is suspended only while the child runs; once the 'exit' callback has
\* returned for code 0 the run ends with no further event.
EventuallyTerminal ==
  /\ <>(pc = "Terminal")
  /\ []((pc = "Delegating" /\ events = <<>> /\ ~exitHandled) => child = "running")
  /\ (exitHandled /\ events = <<>>) ~> (pc = "Terminal")
  /\ [][exitHandled => events' = <<>>]_vars

EventuallyTerminalWitness ==
  /\ pc = "Terminal"
  /\ exitHandled
  /\ exitStatus = Some(0)

\* C11: a run ends with status 0 only if a subprocess was launched and it
\* exited with the numeric code 0.
StatusZeroOnlyAfterChildZero ==
  (pc = "Terminal" /\ exitStatus = Some(0)) =>
    /\ launched # <<>>
    /\ child = "exited"
    /\ childCode = Some(0)

\* C12: only the first positional argument X decides the run.  Whatever
\* arguments follow it, the delegated command is the fixed words followed by
\* the words of X and nothing else, the lines printed and the exit status
\* are those fixed by X and the child's outcome, and a run with a usable X
\* is never turned away with a usage error.
ExtraArgumentsIgnored ==
  Len(argv) >= 1 =>
    LET X == argv[1]
        usable == X # <<>>
        command == << <<"pnpm">>, <<"dlx">>, <<"shadcn@canary">>, <<"add">> >>
                     \o ShellSplit(X, <<>>)
        lines == <<AddingMsg(X), WorkingDirMsg(projectRoot), SuccessMsg(X)>>
    IN  /\ \A i \in 1..Len(launched) : launched[i].argv = command
        /\ usable => /\ Len(stdout) <= Len(lines)
                     /\ stdout = SubSeq(lines, 1, Len(stdout))
        /\ (usable /\ pc # "AwaitingArgument") =>
             /\ spawnCalls = 1
             /\ ~Printed(stderr, UsageErrorMsg)
        /\ (usable /\ pc = "Terminal" /\ child = "exited") =>
             /\ Len(launched) = 1
             /\ IF childCode = Some(0)
                  THEN exitStatus = Some(0) /\ stderr = <<>> /\ Len(stdout) = 3
                  ELSE /\ exitStatus = ProcessExit(childCode)
                       /\ stderr = <<FailedMsg(childCode)>>
                       /\ Len(stdout) = 2
        /\ (usable /\ pc = "Terminal" /\ child = "failed") =>
             /\ exitStatus = Some(1)
             /\ stderr = <<RunErrorMsg(launchReason[1])>>
             /\ launched = <<>>
        /\ (~usable /\ pc = "Terminal") =>
             /\ exitStatus = Some(1)
             /\ stdout = <<UsageHintMsg, UsageExampleMsg>>
             /\ stderr = <<UsageErrorMsg>>
             /\ spawnCalls = 0

ExtraArgumentsIgnoredWitness ==
  /\ pc = "Terminal"
  /\ Len(argv) = 2
  /\ argv[1] = <<"a">>
  /\ argv[2] = <<"b">>
  /\ Len(launched) = 1
  /\ exitStatus = Some(0)

====
